---- MODULE Spec2Model ----
(***************************************************************************)
(* Session manager of the server (src/server/ua_session_manager.c).        *)
(* The manager keeps a singly linked list of session entries, the          *)
(* configured limits and two UA_UInt32 counters.  Each secure channel has  *)
(* a session slot (channel->session) that the manager clears on removal.   *)
(***************************************************************************)
EXTENDS Integers, Naturals, Sequences, FiniteSets, TLC

\* ---------------------------------------------------------------- bounds
MaxCount == 2          \* largest maxSessionCount passed to init
MaxLifeTime == 2       \* largest maxSessionLifeTime passed to init
NumChannels == 1       \* secure channels that exist beside the manager
MaxTime == 2           \* the clock runs from 0 to MaxTime

\* ------------------------------------------------------------- constants
HalfMod == 65536                        \* 2^16: a UA_UInt32 is kept as two halves
SessionNamespace == 1                   \* .namespaceIndex = 1

UA_NULL == 0
Channels == 1..NumChannels
ChannelArgs == Channels \cup {UA_NULL}

UA_STATUSCODE_GOOD == "Good"
UA_STATUSCODE_BADINTERNALERROR == "BadInternalError"
UA_STATUSCODE_BADTOOMANYSESSIONS == "BadTooManySessions"
UA_STATUSCODE_BADOUTOFMEMORY == "BadOutOfMemory"
NoStatus == "void"                      \* operation without a return value
Unwritten == "unwritten"                \* *session not assigned by the call

\* A UA_UInt32 whose wrap-around matters is the pair <<high, low>> of its
\* 16-bit halves (value = high * 2^16 + low), so that ++ is exact modulo 2^32.
U32(hi, lo) == <<hi, lo>>

Inc32_noIncrement(x) == x

Inc32_noCarry(x) == U32(x[1], (x[2] + 1) % HalfMod)

\* x + 1 on a UA_UInt32
Inc32(x) ==
    IF x[2] = HalfMod - 1
    THEN U32((x[1] + 1) % HalfMod, 0)
    ELSE U32(x[1], x[2] + 1)

\* values init is called with: 100 and 2^32 - 2 (the counter wraps on the
\* second creation)
StartSessionIds == {U32(0, 100), U32(HalfMod - 1, HalfMod - 2)}
SessionCounts == 0..MaxCount
LifeTimes == {0, MaxLifeTime}
\* values of request->requestedSessionTimeout: 0, the smallest positive value,
\* the largest maxSessionLifeTime and the value above it
RequestedTimeouts == {0, 1, MaxLifeTime, MaxLifeTime + 1}

VARIABLES
    sessions,             \* sessionManager->sessions, head first
    maxSessionCount,      \* sessionManager->maxSessionCount
    maxSessionLifeTime,   \* sessionManager->maxSessionLifeTime
    lastSessionId,        \* sessionManager->lastSessionId
    currentSessionCount,  \* sessionManager->currentSessionCount
    chanSession,          \* channel->session of every secure channel
    freeCount,            \* per allocated entry: number of UA_free calls
    issued,               \* sessions handed out by createSession, in order
    released,             \* entries unlinked and freed by the last call
    op, arg, status, out, \* the last call, its argument and its results
    pc,                   \* statement the running call has reached, or "idle"
    cur,                  \* entry the running call has unlinked (current)
    now                   \* UA_DateTime_now()

vars == <<sessions, maxSessionCount, maxSessionLifeTime, lastSessionId,
          currentSessionCount, chanSession, freeCount, issued, released,
          op, arg, status, out, pc, cur, now>>

\* pc is <<call, statement>>; no call is running
Idle == <<"none", "idle">>

\* what a call that runs to completion without reading the clock leaves alone
CallFrame == <<pc, cur, now>>

\* ---------------------------------------------------------------- NodeId
NodeId(ns, n) == [namespaceIndex |-> ns, numeric |-> n]

UA_NodeId_equal(a, b) ==
    a.namespaceIndex = b.namespaceIndex /\ a.numeric = b.numeric

\* identifiers a caller may ask for: in the sessions' namespace every value
\* handed out so far as a sessionId or as a token and the next two counter
\* values; in namespace 0 the numeric values of the session created last
NodeIdArgs ==
    { NodeId(SessionNamespace, n) :
        n \in { issued[k].sessionId.numeric : k \in 1..Len(issued) }
              \cup { issued[k].authenticationToken.numeric : k \in 1..Len(issued) }
              \cup { lastSessionId, Inc32(lastSessionId) } }
    \cup
    { NodeId(0, n) :
        n \in { issued[k].sessionId.numeric : k \in {Len(issued)} \ {0} }
              \cup { issued[k].authenticationToken.numeric :
                        k \in {Len(issued)} \ {0} } }

\* ------------------------------------------------------------ list scans
\* LIST_FOREACH ... break: index of the first entry whose sessionId matches,
\* 0 when the loop runs off the end (current == UA_NULL)
RECURSIVE FindById_ignoresNamespace(_, _, _)
FindById_ignoresNamespace(list, id, i) ==
    IF i > Len(list) THEN 0
    ELSE IF list[i].sessionId.numeric = id.numeric THEN i
    ELSE FindById_ignoresNamespace(list, id, i + 1)

RECURSIVE FindById_skipsExpired(_, _, _)
FindById_skipsExpired(list, id, i) ==
    IF i > Len(list) THEN 0
    ELSE IF /\ UA_NodeId_equal(list[i].sessionId, id)
            /\ list[i].expirationDate >= now THEN i
    ELSE FindById_skipsExpired(list, id, i + 1)

RECURSIVE FindById(_, _, _)
FindById(list, id, i) ==
    IF i > Len(list) THEN 0
    ELSE IF UA_NodeId_equal(list[i].sessionId, id) THEN i
    ELSE FindById(list, id, i + 1)

RECURSIVE FindByToken_comparesSessionId(_, _, _)
FindByToken_comparesSessionId(list, token, i) ==
    IF i > Len(list) THEN 0
    ELSE IF UA_NodeId_equal(list[i].sessionId, token) THEN i
    ELSE FindByToken_comparesSessionId(list, token, i + 1)

RECURSIVE FindByToken(_, _, _)
FindByToken(list, token, i) ==
    IF i > Len(list) THEN 0
    ELSE IF UA_NodeId_equal(list[i].authenticationToken, token) THEN i
    ELSE FindByToken(list, token, i + 1)

ListRemove_removesHead(list, i) == Tail(list)

\* LIST_REMOVE(current, pointers)
ListRemove(list, i) ==
    [k \in 1..(Len(list) - 1) |-> IF k < i THEN list[k] ELSE list[k + 1]]

Detach_omitted(slots, entry) == slots

\* if(session.channel) session.channel->session = UA_NULL
Detach(slots, entry) ==
    IF entry.channel # UA_NULL
    THEN [slots EXCEPT ![entry.channel] = UA_NULL]
    ELSE slots

\* UA_free(current)
Free(counts, entry) == [counts EXCEPT ![entry.ptr] = @ + 1]

\* ------------------------------------------------------------------ init
Init ==
    /\ sessions = <<>>
    /\ maxSessionCount \in SessionCounts
    /\ maxSessionLifeTime \in LifeTimes
    /\ lastSessionId \in StartSessionIds
    /\ currentSessionCount = 0
    /\ chanSession = [c \in Channels |-> UA_NULL]
    /\ freeCount = <<>>
    /\ issued = <<>>
    /\ released = {}
    /\ op = "init"
    /\ arg = UA_NULL
    /\ status = UA_STATUSCODE_GOOD
    /\ out = Unwritten
    /\ pc = Idle
    /\ cur = UA_NULL
    /\ now = 0

\* ---------------------------------------------------------------- lookups
getSessionById_movesToFront(id) ==
    LET i == FindById(sessions, id, 1) IN
    /\ op' = "getSessionById"
    /\ arg' = id
    /\ IF i = 0
       THEN /\ out' = UA_NULL /\ status' = UA_STATUSCODE_BADINTERNALERROR
            /\ UNCHANGED sessions
       ELSE /\ out' = sessions[i].ptr /\ status' = UA_STATUSCODE_GOOD
            /\ sessions' = <<sessions[i]>> \o ListRemove(sessions, i)
    /\ released' = {}
    /\ UNCHANGED <<maxSessionCount, maxSessionLifeTime, lastSessionId,
                   currentSessionCount, chanSession, freeCount, issued,
                   CallFrame>>

getSessionById(id) ==
    LET i == FindById(sessions, id, 1) IN
    /\ op' = "getSessionById"
    /\ arg' = id
    /\ IF i = 0
       THEN out' = UA_NULL /\ status' = UA_STATUSCODE_BADINTERNALERROR
       ELSE out' = sessions[i].ptr /\ status' = UA_STATUSCODE_GOOD
    /\ released' = {}
    /\ UNCHANGED <<sessions, maxSessionCount, maxSessionLifeTime, lastSessionId,
                   currentSessionCount, chanSession, freeCount, issued,
                   CallFrame>>

getSessionByToken(token) ==
    LET i == FindByToken(sessions, token, 1) IN
    /\ op' = "getSessionByToken"
    /\ arg' = token
    /\ IF i = 0
       THEN out' = UA_NULL /\ status' = UA_STATUSCODE_BADINTERNALERROR
       ELSE out' = sessions[i].ptr /\ status' = UA_STATUSCODE_GOOD
    /\ released' = {}
    /\ UNCHANGED <<sessions, maxSessionCount, maxSessionLifeTime, lastSessionId,
                   currentSessionCount, chanSession, freeCount, issued,
                   CallFrame>>

\* ----------------------------------------------------------- createSession
SessionTimeout_zeroAccepted(requested, maxLife) ==
    IF requested <= maxLife THEN requested ELSE maxLife

\* timeout of the new session (line 105)
SessionTimeout(requested, maxLife) ==
    IF requested <= maxLife /\ requested > 0 THEN requested ELSE maxLife

\* UA_Session_setExpirationDate: the deadline is the timeout from now on
UA_Session_setExpirationDate(timeout) == now + timeout

NewEntry_tokenBeforeIncrement(channel, requested) ==
    [ptr |-> Len(freeCount) + 1,
     sessionId |-> NodeId(SessionNamespace, lastSessionId),
     authenticationToken |-> NodeId(SessionNamespace, lastSessionId),
     channel |-> channel,
     timeout |-> SessionTimeout(requested, maxSessionLifeTime),
     expirationDate |-> UA_Session_setExpirationDate(
                            SessionTimeout(requested, maxSessionLifeTime))]

\* the entry built by lines 98-106; lastSessionId++ is read before the
\* increment for the sessionId and after it for the authenticationToken
NewEntry(channel, requested) ==
    [ptr |-> Len(freeCount) + 1,
     sessionId |-> NodeId(SessionNamespace, lastSessionId),
     authenticationToken |->
         NodeId(SessionNamespace, Inc32(lastSessionId)),
     channel |-> channel,
     timeout |-> SessionTimeout(requested, maxSessionLifeTime),
     expirationDate |-> UA_Session_setExpirationDate(
                            SessionTimeout(requested, maxSessionLifeTime))]

TooManySessions_offByOne(count, max) == count > max

\* line 91: the admission check
TooManySessions(count, max) == count >= max

AllocFailed_unchecked(mallocOk) == FALSE

\* line 95: if(!newentry)
AllocFailed(mallocOk) == ~mallocOk

createSession(channel, requested, mallocOk) ==
    /\ op' = "createSession"
    /\ arg' = [channel |-> channel, requested |-> requested,
               mallocOk |-> mallocOk]
    /\ released' = {}
    /\ IF TooManySessions(currentSessionCount, maxSessionCount)
       THEN /\ status' = UA_STATUSCODE_BADTOOMANYSESSIONS
            /\ out' = Unwritten
            /\ UNCHANGED <<sessions, lastSessionId, currentSessionCount,
                           freeCount, issued>>
       ELSE IF AllocFailed(mallocOk)
       THEN /\ status' = UA_STATUSCODE_BADOUTOFMEMORY
            /\ out' = Unwritten
            /\ UNCHANGED <<sessions, lastSessionId, currentSessionCount,
                           freeCount, issued>>
       ELSE LET e == NewEntry(channel, requested) IN
            /\ lastSessionId' = Inc32(lastSessionId)
            /\ currentSessionCount' = currentSessionCount + 1
            /\ sessions' = <<e>> \o sessions
            /\ freeCount' = Append(freeCount, 0)
            /\ issued' = Append(issued, [sessionId |-> e.sessionId,
                                          authenticationToken |-> e.authenticationToken])
            /\ out' = e.ptr
            /\ status' = UA_STATUSCODE_GOOD
    /\ UNCHANGED <<maxSessionCount, maxSessionLifeTime, chanSession, CallFrame>>

\* ----------------------------------------------------------- removeSession
removeSession(id) ==
    LET i == FindById(sessions, id, 1) IN
    /\ op' = "removeSession"
    /\ arg' = id
    /\ out' = Unwritten
    /\ IF i = 0
       THEN /\ status' = UA_STATUSCODE_BADINTERNALERROR
            /\ released' = {}
            /\ UNCHANGED <<sessions, chanSession, freeCount>>
       ELSE /\ sessions' = ListRemove(sessions, i)
            /\ released' = {sessions[i].ptr}
            /\ chanSession' = Detach(chanSession, sessions[i])
            /\ freeCount' = Free(freeCount, sessions[i])
            /\ status' = UA_STATUSCODE_GOOD
    /\ UNCHANGED <<maxSessionCount, maxSessionLifeTime, lastSessionId,
                   currentSessionCount, issued, CallFrame>>

\* ----------------------------------------------------------- deleteMembers
\* the while loop of UA_SessionManager_deleteMembers: walks the list from the
\* head, unlinking, detaching and freeing one entry per iteration
DeleteLoop_headOnly(list, slots, counts) ==
    IF list = <<>> THEN [sessions |-> list, slots |-> slots, counts |-> counts]
    ELSE [sessions |-> Tail(list), slots |-> Detach(slots, Head(list)),
          counts |-> Free(counts, Head(list))]

RECURSIVE DeleteLoop(_, _, _)
DeleteLoop(list, slots, counts) ==
    IF list = <<>> THEN [sessions |-> list, slots |-> slots, counts |-> counts]
    ELSE DeleteLoop(Tail(list), Detach(slots, Head(list)),
                    Free(counts, Head(list)))

deleteMembers ==
    LET r == DeleteLoop(sessions, chanSession, freeCount) IN
    /\ op' = "deleteMembers"
    /\ arg' = UA_NULL
    /\ status' = NoStatus
    /\ out' = Unwritten
    /\ sessions' = r.sessions
    /\ released' = {sessions[k].ptr : k \in 1..(Len(sessions) - Len(r.sessions))}
    /\ chanSession' = r.slots
    /\ freeCount' = r.counts
    /\ UNCHANGED <<maxSessionCount, maxSessionLifeTime, lastSessionId,
                   currentSessionCount, issued, CallFrame>>

\* ------------------------------------------------------------ environment
\* the owner of a secure channel binds the channel to a session that was
\* created on it (channel->session = session)
attachSession(c, i) ==
    /\ i \in 1..Len(sessions)
    /\ sessions[i].channel = c
    /\ op' = "attachSession"
    /\ arg' = c
    /\ status' = NoStatus
    /\ out' = Unwritten
    /\ released' = {}
    /\ chanSession' = [chanSession EXCEPT ![c] = sessions[i].ptr]
    /\ UNCHANGED <<sessions, maxSessionCount, maxSessionLifeTime, lastSessionId,
                   currentSessionCount, freeCount, issued, CallFrame>>

Next ==
    \/ \E id \in NodeIdArgs : getSessionById(id)
    \/ \E token \in NodeIdArgs : getSessionByToken(token)
    \/ \E c \in ChannelArgs, r \in RequestedTimeouts, m \in BOOLEAN :
           createSession(c, r, m)
    \/ \E id \in NodeIdArgs : removeSession(id)
    \/ deleteMembers
    \/ \E c \in Channels, i \in 1..MaxCount : attachSession(c, i)

Spec == Init /\ [][Next]_vars

\* ------------------------------------------------- teardown, by statement
\* Order of the statements that take one entry down (lines 124-128 and
\* 32-36): LIST_REMOVE, then the clearing of channel->session, then
\* UA_Session_deleteMembers and UA_free.
StepAfter_freeFirst(step) ==
    CASE step = "unlink" -> "free"
      [] step = "free" -> "detach"
      [] step = "detach" -> "done"

StepAfter(step) ==
    CASE step = "unlink" -> "detach"
      [] step = "detach" -> "free"
      [] step = "free" -> "done"

StepFrame == <<maxSessionCount, maxSessionLifeTime, lastSessionId,
               currentSessionCount, issued, now>>

\* removeSession up to and including LIST_REMOVE (lines 115-124)
removeUnlink(id) ==
    LET i == FindById(sessions, id, 1) IN
    /\ pc = Idle
    /\ op' = "removeSession"
    /\ arg' = id
    /\ out' = Unwritten
    /\ released' = {}
    /\ IF i = 0
       THEN /\ status' = UA_STATUSCODE_BADINTERNALERROR
            /\ UNCHANGED <<sessions, pc, cur>>
       ELSE /\ status' = NoStatus
            /\ sessions' = ListRemove(sessions, i)
            /\ cur' = sessions[i]
            /\ pc' = <<"removeSession", StepAfter("unlink")>>
    /\ UNCHANGED <<chanSession, freeCount, StepFrame>>

\* entry of UA_SessionManager_deleteMembers (lines 27-28)
deleteBegin ==
    /\ pc = Idle
    /\ op' = "deleteMembers"
    /\ arg' = UA_NULL
    /\ out' = Unwritten
    /\ status' = NoStatus
    /\ released' = {}
    /\ pc' = <<"deleteMembers", "loop">>
    /\ UNCHANGED <<sessions, cur, chanSession, freeCount, StepFrame>>

\* while(next) { current = next; next = LIST_NEXT; LIST_REMOVE } (lines 29-32)
deleteLoop ==
    /\ pc = <<"deleteMembers", "loop">>
    /\ IF sessions = <<>>
       THEN pc' = Idle /\ UNCHANGED <<sessions, cur>>
       ELSE /\ cur' = Head(sessions)
            /\ sessions' = Tail(sessions)
            /\ pc' = <<"deleteMembers", StepAfter("unlink")>>
    /\ UNCHANGED <<op, arg, out, status, released, chanSession, freeCount,
                   StepFrame>>

\* lines 125-126 and 33-34
stepDetach ==
    /\ pc[2] = "detach"
    /\ chanSession' = Detach(chanSession, cur)
    /\ pc' = <<pc[1], StepAfter("detach")>>
    /\ UNCHANGED <<sessions, cur, op, arg, out, status, released, freeCount,
                   StepFrame>>

\* lines 127-128 and 35-36
stepFree ==
    /\ pc[2] = "free"
    /\ freeCount' = Free(freeCount, cur)
    /\ released' = released \cup {cur.ptr}
    /\ pc' = <<pc[1], StepAfter("free")>>
    /\ UNCHANGED <<sessions, cur, op, arg, out, status, chanSession, StepFrame>>

\* return UA_STATUSCODE_GOOD (line 129), or the end of the loop body (line 37)
stepDone ==
    /\ pc[2] = "done"
    /\ cur' = UA_NULL
    /\ IF pc[1] = "removeSession"
       THEN pc' = Idle /\ status' = UA_STATUSCODE_GOOD
       ELSE pc' = <<"deleteMembers", "loop">> /\ UNCHANGED status
    /\ UNCHANGED <<sessions, op, arg, out, released, chanSession, freeCount,
                   StepFrame>>

StepNext ==
    \/ pc = Idle /\ \E id \in NodeIdArgs : getSessionById(id)
    \/ pc = Idle /\ \E token \in NodeIdArgs : getSessionByToken(token)
    \/ pc = Idle /\ \E c \in ChannelArgs, r \in RequestedTimeouts, m \in BOOLEAN :
                        createSession(c, r, m)
    \/ pc = Idle /\ \E c \in Channels, i \in 1..MaxCount : attachSession(c, i)
    \/ \E id \in NodeIdArgs : removeUnlink(id)
    \/ deleteBegin
    \/ deleteLoop
    \/ stepDetach
    \/ stepFree
    \/ stepDone

StepSpec == Init /\ [][StepNext]_vars

\* ------------------------------------------------------- passage of time
\* the clock advances between two calls
Tick ==
    /\ pc = Idle
    /\ now < MaxTime
    /\ now' = now + 1
    /\ op' = "tick"
    /\ arg' = UA_NULL
    /\ status' = NoStatus
    /\ out' = Unwritten
    /\ released' = {}
    /\ UNCHANGED <<sessions, maxSessionCount, maxSessionLifeTime, lastSessionId,
                   currentSessionCount, chanSession, freeCount, issued, pc, cur>>

\* the calls between which the clock advances; sessions are created without a
\* channel, which no lookup reads
TimeNext ==
    \/ \E id \in NodeIdArgs : getSessionById(id)
    \/ \E token \in NodeIdArgs : getSessionByToken(token)
    \/ \E r \in RequestedTimeouts, m \in BOOLEAN : createSession(UA_NULL, r, m)
    \/ \E id \in NodeIdArgs : removeSession(id)
    \/ deleteMembers
    \/ Tick

TimeSpec == Init /\ [][TimeNext]_vars

\* ------------------------------------------- calls with a UA_NULL manager
Crashed == "crashed"

\* Outcomes of a call that reads through the UA_NULL sessionManager (lines 91
\* and 116): the behaviour is undefined, the process stops or the call comes
\* back with any of the codes the function can return.
NullDeref(returns) == {Crashed} \cup returns

CreateReturns ==
    {UA_STATUSCODE_GOOD, UA_STATUSCODE_BADTOOMANYSESSIONS,
     UA_STATUSCODE_BADOUTOFMEMORY}
RemoveReturns == {UA_STATUSCODE_GOOD, UA_STATUSCODE_BADINTERNALERROR}

\* the table of a call on UA_NULL is not this table
NullFrame == <<sessions, maxSessionCount, maxSessionLifeTime, lastSessionId,
               currentSessionCount, chanSession, freeCount, issued, cur, now>>

\* lines 42-45
nullGetSessionById(id) ==
    /\ pc = Idle
    /\ op' = "getSessionById(UA_NULL)"
    /\ arg' = id
    /\ out' = UA_NULL
    /\ status' = UA_STATUSCODE_BADINTERNALERROR
    /\ released' = {}
    /\ UNCHANGED <<NullFrame, pc>>

\* lines 66-69
nullGetSessionByToken(token) ==
    /\ pc = Idle
    /\ op' = "getSessionByToken(UA_NULL)"
    /\ arg' = token
    /\ out' = UA_NULL
    /\ status' = UA_STATUSCODE_BADINTERNALERROR
    /\ released' = {}
    /\ UNCHANGED <<NullFrame, pc>>

\* line 91 reads sessionManager->currentSessionCount without a check
nullCreateSession(channel, requested) ==
    /\ pc = Idle
    /\ op' = "createSession(UA_NULL)"
    /\ arg' = [channel |-> channel, requested |-> requested, mallocOk |-> TRUE]
    /\ out' = Unwritten
    /\ released' = {}
    /\ status' \in NullDeref(CreateReturns)
    /\ pc' = IF status' = Crashed THEN <<"createSession", Crashed>> ELSE pc
    /\ UNCHANGED NullFrame

\* line 116 reads sessionManager->sessions without a check
nullRemoveSession(id) ==
    /\ pc = Idle
    /\ op' = "removeSession(UA_NULL)"
    /\ arg' = id
    /\ out' = Unwritten
    /\ released' = {}
    /\ status' \in NullDeref(RemoveReturns)
    /\ pc' = IF status' = Crashed THEN <<"removeSession", Crashed>> ELSE pc
    /\ UNCHANGED NullFrame

NullNext ==
    \/ pc = Idle /\ \E c \in ChannelArgs, r \in RequestedTimeouts, m \in BOOLEAN :
                        createSession(c, r, m)
    \/ pc = Idle /\ \E c \in Channels, i \in 1..MaxCount : attachSession(c, i)
    \/ \E id \in NodeIdArgs : nullGetSessionById(id)
    \/ \E token \in NodeIdArgs : nullGetSessionByToken(token)
    \/ \E c \in ChannelArgs, r \in RequestedTimeouts : nullCreateSession(c, r)
    \/ \E id \in NodeIdArgs : nullRemoveSession(id)

NullSpec == Init /\ [][NullNext]_vars

\* =================================================================== claims
TableVars == <<sessions, currentSessionCount, lastSessionId, chanSession>>

CreateFailed(st) ==
    st \in {UA_STATUSCODE_BADTOOMANYSESSIONS, UA_STATUSCODE_BADOUTOFMEMORY}

\* C1: in every reachable state currentSessionCount equals the number of
\* session entries in the list.
C1_CountEqualsSize == currentSessionCount = Len(sessions)

\* C2: a successful removeSession leaves currentSessionCount one below its
\* value before the call.
C2_RemoveDecrements ==
    [][(op' = "removeSession" /\ status' = UA_STATUSCODE_GOOD)
          => currentSessionCount' = currentSessionCount - 1]_vars

\* C3: capacity bounds the live sessions: when a successful removeSession has
\* just taken one session out of a full table, the createSession that follows
\* is not refused with BadTooManySessions (create, refused create,
\* removeSession, create: the last create succeeds).
C3_CreateAfterRemove ==
    [][(op = "removeSession" /\ status = UA_STATUSCODE_GOOD
        /\ Len(sessions) + 1 = maxSessionCount
        /\ op' = "createSession")
          => status' # UA_STATUSCODE_BADTOOMANYSESSIONS]_vars

\* C4: in every reachable state 0 <= currentSessionCount <= maxSessionCount
\* and the list holds at most maxSessionCount entries.
C4_CountBounded ==
    /\ 0 <= currentSessionCount
    /\ currentSessionCount <= maxSessionCount
    /\ Len(sessions) <= maxSessionCount

\* C4 witness: the table is full, every counted session still in the list.
C4_Witness ==
    /\ maxSessionCount = MaxCount
    /\ currentSessionCount = maxSessionCount
    /\ Len(sessions) = maxSessionCount

\* C5: a createSession called with currentSessionCount >= maxSessionCount
\* returns BadTooManySessions, one whose allocation fails returns
\* BadOutOfMemory, and every createSession that does not return Good leaves the
\* list, currentSessionCount, lastSessionId and every channel's session slot
\* as they were.
C5_FailedCreateUnmodified ==
    [][op' = "createSession" =>
          /\ currentSessionCount >= maxSessionCount
                => status' = UA_STATUSCODE_BADTOOMANYSESSIONS
          /\ (currentSessionCount < maxSessionCount /\ ~arg'.mallocOk)
                => status' = UA_STATUSCODE_BADOUTOFMEMORY
          /\ status' # UA_STATUSCODE_GOOD
                => (CreateFailed(status') /\ UNCHANGED TableVars)]_vars

\* C5 witness: an allocation failure on a table that holds a session bound to
\* its channel.
C5_Witness ==
    /\ op = "createSession"
    /\ status = UA_STATUSCODE_BADOUTOFMEMORY
    /\ sessions # <<>>
    /\ \E c \in Channels : chanSession[c] # UA_NULL

\* identifiers and tokens of the entries of a list
IdsOf(list) == {list[k].sessionId : k \in 1..Len(list)}
TokensOf(list) == {list[k].authenticationToken : k \in 1..Len(list)}

\* C6: no two sessions in the list share a sessionId, and no two share an
\* authenticationToken, also when lastSessionId wraps around 2^32.
C6_UniqueIdentifiers ==
    \A i, j \in 1..Len(sessions) :
        i # j => /\ sessions[i].sessionId # sessions[j].sessionId
                 /\ sessions[i].authenticationToken
                        # sessions[j].authenticationToken

\* C6 witness: two live sessions, the counter having wrapped to 0 between them.
C6_Witness ==
    /\ Len(sessions) >= 2
    /\ lastSessionId = U32(0, 0)

\* C7 (as stated): the sessionId and the token of every created session differ
\* from every sessionId and every token handed out before it.
C7_AllIssuedDistinct ==
    \A j, k \in 1..Len(issued) :
        j < k =>
            /\ issued[k].sessionId # issued[j].sessionId
            /\ issued[k].sessionId # issued[j].authenticationToken
            /\ issued[k].authenticationToken # issued[j].sessionId
            /\ issued[k].authenticationToken # issued[j].authenticationToken

\* C7 (amended): the sessionId of every created session differs from every
\* sessionId handed out before it, its token differs from every sessionId and
\* every token handed out before it, and its sessionId is the token of the
\* session created just before it.
C7_IssuedDistinctPerKind ==
    /\ \A j, k \in 1..Len(issued) :
        j < k =>
            /\ issued[k].sessionId # issued[j].sessionId
            /\ issued[k].authenticationToken # issued[j].sessionId
            /\ issued[k].authenticationToken # issued[j].authenticationToken
    /\ \A k \in 2..Len(issued) :
            issued[k].sessionId = issued[k - 1].authenticationToken

\* C7 witness: a second session was created after the first one was removed.
C7_Witness ==
    /\ Len(issued) >= 2
    /\ Len(sessions) < Len(issued)
    /\ op = "createSession"
    /\ status = UA_STATUSCODE_GOOD

\* the entries of the list whose sessionId / authenticationToken is n
WithId(list, n) == {k \in 1..Len(list) : list[k].sessionId = n}
WithToken(list, n) == {k \in 1..Len(list) : list[k].authenticationToken = n}

\* what a lookup that matched the entries m of the list must have returned
LookupResult(m) ==
    IF m = {}
    THEN status # UA_STATUSCODE_GOOD /\ out = UA_NULL
    ELSE /\ status = UA_STATUSCODE_GOOD
         /\ Cardinality(m) = 1
         /\ \A k \in m : out = sessions[k].ptr

\* C8: getSessionById(x) returns Good and the one session whose sessionId is x
\* when the list holds it, getSessionByToken(x) the one session whose
\* authenticationToken is x; for a value no session in the list carries (never
\* issued, or its session removed) the status is not Good and the output is
\* UA_NULL.
C8_LookupRoundTrip ==
    /\ op = "getSessionById" => LookupResult(WithId(sessions, arg))
    /\ op = "getSessionByToken" => LookupResult(WithToken(sessions, arg))

\* C8 witness: a token lookup that returned the older of two live sessions.
C8_Witness ==
    /\ op = "getSessionByToken"
    /\ status = UA_STATUSCODE_GOOD
    /\ Len(sessions) = 2
    /\ out = sessions[2].ptr

\* C9: a successful removeSession(id) leaves no session with that sessionId in
\* the list and the session slot of the channel the session referenced empty;
\* a sessionId that is not in the list stays out of it until a createSession,
\* and removeSession on such an id returns an error status and changes neither
\* the list, the counters, the channels nor the freed entries.
C9_RemoveThenRemoveAgain ==
    [][/\ (op' = "removeSession" /\ status' = UA_STATUSCODE_GOOD) =>
            /\ WithId(sessions', arg') = {}
            /\ \A k \in WithId(sessions, arg') :
                  sessions[k].channel # UA_NULL
                      => chanSession'[sessions[k].channel] = UA_NULL
       /\ op' # "createSession" => IdsOf(sessions') \subseteq IdsOf(sessions)
       /\ (op' = "removeSession" /\ WithId(sessions, arg') = {}) =>
            /\ status' # UA_STATUSCODE_GOOD
            /\ UNCHANGED <<TableVars, freeCount>>]_vars

\* C9 witness: removeSession fails on the sessionId of a session that an
\* earlier removal freed, its channel's slot being empty.
C9_Witness ==
    /\ op = "removeSession"
    /\ status = UA_STATUSCODE_BADINTERNALERROR
    /\ \E k \in 1..Len(issued) :
          /\ issued[k].sessionId = arg
          /\ freeCount[k] = 1
    /\ \A c \in Channels : chanSession[c] = UA_NULL

\* C10: deleteMembers leaves the list empty, frees every entry that was in the
\* list exactly once and no other entry, and leaves the session slot of every
\* channel that one of those entries referenced empty.
C10_TeardownRemovesAll ==
    [][op' = "deleteMembers" =>
          /\ sessions' = <<>>
          /\ released' = {sessions[k].ptr : k \in 1..Len(sessions)}
          /\ \A q \in 1..Len(freeCount) :
                freeCount'[q] = freeCount[q]
                                  + (IF q \in released' THEN 1 ELSE 0)
          /\ \A k \in 1..Len(sessions) :
                sessions[k].channel # UA_NULL
                    => chanSession'[sessions[k].channel] = UA_NULL]_vars

\* C10 witness: deleteMembers has just released two sessions.
C10_Witness ==
    /\ op = "deleteMembers"
    /\ Cardinality(released) = 2
    /\ sessions = <<>>

\* C11: after deleteMembers currentSessionCount is 0.
C11_TeardownResetsCount ==
    op = "deleteMembers" => currentSessionCount = 0

\* C12: every session in the list whose channel is set is the session that
\* channel holds in its session slot.
C12_BackReferenceConsistent ==
    \A k \in 1..Len(sessions) :
        sessions[k].channel # UA_NULL
            => chanSession[sessions[k].channel] = sessions[k].ptr

\* C14: the timeout stored by a successful createSession is the requested
\* timeout when 0 < requested <= maxSessionLifeTime and maxSessionLifeTime
\* otherwise.
C14_TimeoutClamped ==
    (op = "createSession" /\ status = UA_STATUSCODE_GOOD) =>
        /\ (0 < arg.requested /\ arg.requested <= maxSessionLifeTime)
              => sessions[1].timeout = arg.requested
        /\ (arg.requested = 0 \/ arg.requested > maxSessionLifeTime)
              => sessions[1].timeout = maxSessionLifeTime

\* C14 witness: a request for 0 was given the configured maximum.
C14_Witness ==
    /\ op = "createSession"
    /\ status = UA_STATUSCODE_GOOD
    /\ arg.requested = 0
    /\ maxSessionLifeTime = MaxLifeTime
    /\ sessions[1].timeout = MaxLifeTime

\* the calls that scan an initialized table for an identifier
ScanOps == {"getSessionById", "getSessionByToken", "removeSession"}

\* the call of this step scans for an identifier that no session carries
AbsentCall ==
    /\ op' \in ScanOps
    /\ \/ op' \in {"getSessionById", "removeSession"}
          /\ WithId(sessions, arg') = {}
       \/ op' = "getSessionByToken" /\ WithToken(sessions, arg') = {}

\* C16 (as stated): a lookup or removal of an absent identifier on an
\* initialized table fails with an error kind other than the BadInternalError
\* of an invalid handle.
C16_NotFoundDistinct ==
    [][AbsentCall => /\ status' # UA_STATUSCODE_GOOD
                     /\ status' # UA_STATUSCODE_BADINTERNALERROR]_vars

\* C16 (amended): on an initialized table getSessionById, getSessionByToken and
\* removeSession for an identifier no session carries fail with
\* BadInternalError, the status an invalid handle is reported with.
C16_AbsentIsInternalError ==
    [][AbsentCall => status' = UA_STATUSCODE_BADINTERNALERROR]_vars

\* C16 witness: removeSession missed on a table that holds a session with the
\* same numeric identifier in another namespace.
C16_Witness ==
    /\ op = "removeSession"
    /\ status = UA_STATUSCODE_BADINTERNALERROR
    /\ \E k \in 1..Len(sessions) :
          /\ sessions[k].sessionId.numeric = arg.numeric
          /\ sessions[k].sessionId.namespaceIndex # arg.namespaceIndex

\* y is x + 1 modulo 2^32, on the 16-bit halves
IsSucc32(x, y) ==
    \/ x[2] < HalfMod - 1 /\ y = <<x[1], x[2] + 1>>
    \/ x[2] = HalfMod - 1 /\ x[1] < HalfMod - 1 /\ y = <<x[1] + 1, 0>>
    \/ x = <<HalfMod - 1, HalfMod - 1>> /\ y = <<0, 0>>

\* C18: a successful createSession gives the new session the old lastSessionId
\* as sessionId, advances lastSessionId by one modulo 2^32 and gives the
\* session the advanced value as token, which differs from its sessionId; no
\* other step changes lastSessionId.
C18_CounterAdvancesOnce ==
    [][IF op' = "createSession" /\ status' = UA_STATUSCODE_GOOD
       THEN /\ sessions'[1].sessionId = NodeId(SessionNamespace, lastSessionId)
            /\ IsSucc32(lastSessionId, lastSessionId')
            /\ sessions'[1].authenticationToken
                  = NodeId(SessionNamespace, lastSessionId')
            /\ sessions'[1].authenticationToken # sessions'[1].sessionId
       ELSE lastSessionId' = lastSessionId]_vars

\* C18 witness: the session whose token is 0 after the counter wrapped.
C18_Witness ==
    /\ op = "createSession"
    /\ status = UA_STATUSCODE_GOOD
    /\ sessions[1].sessionId.numeric = U32(HalfMod - 1, HalfMod - 1)
    /\ sessions[1].authenticationToken.numeric = U32(0, 0)

\* C19: getSessionById and getSessionByToken change neither the list nor any
\* session's fields, the counters, the limits, the freed entries or any
\* channel's session slot, whether they find a session or not.
C19_LookupsReadOnly ==
    [][op' \in {"getSessionById", "getSessionByToken"} =>
          UNCHANGED <<sessions, currentSessionCount, lastSessionId,
                      maxSessionCount, maxSessionLifeTime, chanSession,
                      freeCount>>]_vars

\* C19 witness: an identifier lookup returned the older of two sessions while
\* a channel holds a session.
C19_Witness ==
    /\ op = "getSessionById"
    /\ status = UA_STATUSCODE_GOOD
    /\ Len(sessions) = 2
    /\ out = sessions[2].ptr
    /\ \E c \in Channels : chanSession[c] # UA_NULL

\* the list without the entries whose sessionId is id
WithoutId(list, id) ==
    LET Keep(e) == e.sessionId # id IN SelectSeq(list, Keep)

\* C20: a successful removeSession(id) takes exactly the one session whose
\* sessionId is id out of the list and frees it; the other sessions stay, in
\* order and with all their fields, also one whose token equals id;
\* lastSessionId and maxSessionCount stay as they were.
C20_RemoveExactlyOne ==
    [][(op' = "removeSession" /\ status' = UA_STATUSCODE_GOOD) =>
          /\ sessions' = WithoutId(sessions, arg')
          /\ Len(sessions') = Len(sessions) - 1
          /\ released' = {sessions[k].ptr : k \in WithId(sessions, arg')}
          /\ UNCHANGED <<lastSessionId, maxSessionCount>>]_vars

\* C20 witness: the session removed last had the token of the remaining
\* session as its sessionId.
C20_Witness ==
    /\ op = "removeSession"
    /\ status = UA_STATUSCODE_GOOD
    /\ Len(sessions) = 1
    /\ sessions[1].authenticationToken = arg

\* C13: at every statement boundary of removeSession and deleteMembers no
\* channel's session slot holds a freed entry, and whenever an entry is freed
\* it is the unlinked entry and the slot of its channel is already empty.
C13_DetachBeforeRelease ==
    /\ [](\A c \in Channels :
            chanSession[c] # UA_NULL => freeCount[chanSession[c]] = 0)
    /\ [][\A q \in 1..Len(freeCount) :
            freeCount'[q] > freeCount[q] =>
                /\ cur.ptr = q
                /\ cur.channel # UA_NULL => chanSession[cur.channel] = UA_NULL]_vars

\* C13 witness: deleteMembers is about to free an entry that names a channel,
\* the channel's slot being empty already.
C13_Witness ==
    /\ pc = <<"deleteMembers", "free">>
    /\ cur.channel # UA_NULL
    /\ chanSession[cur.channel] = UA_NULL
    /\ freeCount[cur.ptr] = 0

NullOps == {"getSessionById(UA_NULL)", "getSessionByToken(UA_NULL)",
            "createSession(UA_NULL)", "removeSession(UA_NULL)"}

\* C15: a call of getSessionById, getSessionByToken, createSession or
\* removeSession with a UA_NULL manager comes back with BadInternalError and
\* the process keeps running.
C15_NullHandleReported ==
    op \in NullOps =>
        /\ status = UA_STATUSCODE_BADINTERNALERROR
        /\ pc = Idle

\* a session of the list is past its expirationDate
Expired(e) == now > e.expirationDate

\* C17: a lookup returns the session that carries the identifier or token also
\* when the clock is past the session's expirationDate, and the list loses an
\* entry only in a removeSession or deleteMembers step, never in a lookup or
\* when the clock advances.
C17_NoExpiryInLookups ==
    /\ [](/\ op = "getSessionById" =>
               \A k \in WithId(sessions, arg) :
                   status = UA_STATUSCODE_GOOD /\ out = sessions[k].ptr
          /\ op = "getSessionByToken" =>
               \A k \in WithToken(sessions, arg) :
                   status = UA_STATUSCODE_GOOD /\ out = sessions[k].ptr)
    /\ [][~(IdsOf(sessions) \subseteq IdsOf(sessions'))
            => op' \in {"removeSession", "deleteMembers"}]_vars

\* C17 witness: an identifier lookup returned a session past its deadline.
C17_Witness ==
    /\ op = "getSessionById"
    /\ status = UA_STATUSCODE_GOOD
    /\ \E k \in 1..Len(sessions) :
          /\ sessions[k].ptr = out
          /\ sessions[k].timeout > 0
          /\ Expired(sessions[k])

====
